---- MODULE Spec2Model ----
(***************************************************************************)
(* The Umbra-AI backend: the backend client adapter (src/supabase.js), the *)
(* authentication router and the conversation router                       *)
(* (src/unnamed/part_000), as state machines over the managed store.       *)
(*                                                                         *)
(* Three specifications share the variables:                               *)
(*   SpecConv    - requests to the conversation router                     *)
(*   SpecAuth    - requests to the authentication router                   *)
(*   SpecAdapter - direct calls of the adapter's helpers                   *)
(***************************************************************************)
EXTENDS Integers, Sequences, FiniteSets, TLC

(***************************************************************************)
(* Bounds of the model.                                                    *)
(***************************************************************************)
MaxConvs == 2        \* conversation rows the store may hold
MaxMsgs == 2         \* message rows the store may hold
MaxUsage == 1        \* api_usage rows the store may hold
MaxCount == 2        \* the api_usage_count a profile may reach
MaxClock == 1        \* readings of the server clock (new Date())
MaxPending == 1      \* requests suspended at an await at a time

(***************************************************************************)
(* Values.                                                                 *)
(***************************************************************************)
Users == {"ann", "bob"}              \* the accounts' identifiers
Null == [null |-> TRUE]              \* JS null where a record is expected
NULL == "NULL"                       \* SQL NULL in a text column
Undefined == <<>>                    \* a body field that is absent
Some(v) == <<v>>                     \* a body field that is present
NoUser == "nobody"                   \* no user resolved / no session held

EmailOf(u) == u \o "@x.io"
\* email.split('@')[0], for the addresses of EmailOf
LocalPart(email) == CHOOSE u \in Users : EmailOf(u) = email

Passwords == {"pw1", "pw2"}
Names == {"Ann A", "nn"}
Avatars == {"a.png"}
Titles == {"t1"}
DefaultTitle == "New Conversation"

\* !x of JavaScript, for a body field holding a string
Falsy(f) == f = Undefined \/ f = Some("")

VARIABLES
    authUsers,      \* auth provider: user id -> [id, email, password, full_name]
    profiles,       \* table user_profiles: user id -> row
    conversations,  \* table conversations: id -> row
    messages,       \* table messages: id -> row
    apiUsage,       \* table api_usage: sequence of rows (append-only log)
    clientSession,  \* the session held in memory by the process-wide client
    pending,        \* requests suspended at an await: set of continuation records
    clock,          \* the server clock
    archived,       \* history: conversations a DELETE answered 200 for and that no
                    \* later PUT un-archived
    resp            \* the response the last step sent, with the request it answers
                    \* (NoResponse when the step sent none)

vars == <<authUsers, profiles, conversations, messages, apiUsage, clientSession,
          pending, clock, archived, resp>>

(***************************************************************************)
(* The managed store, as the query builder shows it: every operation       *)
(* answers {data, error} and never throws.  ok is the outcome the backend  *)
(* chooses for the call (reachable and willing, or not).                   *)
(***************************************************************************)
\* .single(): exactly one row, else an error
Single(rows) ==
    IF Len(rows) = 1 THEN [data |-> rows[1], error |-> FALSE]
    ELSE [data |-> Null, error |-> TRUE]

\* .order(column, {ascending}): the rows of table whose keys are in ids, by their
\* value in column, in the given direction
RECURSIVE OrderBy(_, _, _, _)
OrderBy(table, ids, column, ascending) ==
    IF ids = {} THEN <<>>
    ELSE LET first == CHOOSE i \in ids : \A j \in ids :
                          IF ascending THEN table[i][column] <= table[j][column]
                          ELSE table[i][column] >= table[j][column]
         IN <<table[first]>> \o OrderBy(table, ids \ {first}, column, ascending)

\* the next value of a table's serial key, as text (request parameters are text)
NextId(table) == ToString(Cardinality(DOMAIN table) + 1)

\* row with the columns an update record names overwritten
ApplyUpdates(row, updates) ==
    [c \in DOMAIN row |->
        IF c \in DOMAIN updates /\ updates[c] # Undefined THEN updates[c][1] ELSE row[c]]

\* supabase.auth.getUser(token): token.valid is the provider's verdict on the token
\* (its signature, its expiry, and the provider answering at all)
AuthGetUser(token) ==
    IF token.kind = "jwt" /\ token.valid /\ token.sub \in DOMAIN authUsers
    THEN [user |-> authUsers[token.sub], error |-> FALSE]
    ELSE [user |-> Null, error |-> TRUE]

(***************************************************************************)
(* Queries the helpers and the routes issue.  A query that changes a table *)
(* answers the new table too.                                              *)
(***************************************************************************)
\* from('user_profiles').select('*').eq('id', userId).single()
SelectProfile(userId, ok) ==
    IF ~ok THEN [data |-> Null, error |-> TRUE]
    ELSE Single(IF userId \in DOMAIN profiles THEN <<profiles[userId]>> ELSE <<>>)

\* from('conversations').select(..).eq('id', id).eq('user_id', userId).single()
SelectConversation(conversationId, userId, ok) ==
    IF ~ok THEN [data |-> Null, error |-> TRUE]
    ELSE Single(IF /\ conversationId \in DOMAIN conversations
                   /\ conversations[conversationId].user_id = userId
                THEN <<conversations[conversationId]>> ELSE <<>>)

\* insert([row]).select().single(): the primary key is unique
InsertRow(table, row, ok) ==
    IF ok /\ row.id \notin DOMAIN table
    THEN [data |-> row, error |-> FALSE,
          table |-> [i \in DOMAIN table \cup {row.id} |->
                        IF i = row.id THEN row ELSE table[i]]]
    ELSE [data |-> Null, error |-> TRUE, table |-> table]

\* update(updates).eq('id', id).select().single() on user_profiles
UpdateProfile(userId, updates, ok) ==
    IF ok /\ userId \in DOMAIN profiles
    THEN LET row == ApplyUpdates(profiles[userId], updates)
         IN [data |-> row, error |-> FALSE,
             table |-> [profiles EXCEPT ![userId] = row]]
    ELSE [data |-> Null, error |-> TRUE, table |-> profiles]

(***************************************************************************)
(* The helpers of the adapter.  Each answers                               *)
(*   ret    - what the caller receives                                     *)
(*   raised - whether an exception escapes to the caller                   *)
(*   ops    - the backend operations it issued, in order                   *)
(*   errors - for each of them, whether it answered an error               *)
(*   table  - the table it writes, as the call leaves it                   *)
(***************************************************************************)
Return(v) == [throws |-> FALSE, value |-> v]
Throw == [throws |-> TRUE, value |-> Null]

\* try { ... } catch (error) { console.error(..); return sentinel; }
Catch(outcome, sentinel) ==
    [ret |-> IF outcome.throws THEN sentinel ELSE outcome.value, raised |-> FALSE]

\* if (error) throw error; return data;
ThrowOnError(q) == IF q.error THEN Throw ELSE Return(q.data)

Helper(c, ops, errors, table) ==
    [ret |-> c.ret, raised |-> c.raised, ops |-> ops, errors |-> errors,
     table |-> table]

verifyToken(token) ==
    LET q == AuthGetUser(token)
    IN Helper(Catch(IF q.error THEN Throw ELSE Return(q.user), Null),
              <<"auth.getUser">>, <<q.error>>, authUsers)

getUserProfile(userId, ok) ==
    LET q == SelectProfile(userId, ok)
    IN Helper(Catch(ThrowOnError(q), Null), <<"user_profiles.select">>,
              <<q.error>>, profiles)

\* user.user_metadata?.full_name || user.email.split('@')[0]
NewProfileRow(user) ==
    [id |-> user.id,
     email |-> user.email,
     full_name |-> IF user.full_name \notin {"", NULL} THEN user.full_name
                   ELSE LocalPart(user.email),
     avatar_url |-> NULL,
     subscription_tier |-> "free",
     api_usage_count |-> 0,
     api_usage_limit |-> 100,
     updated_at |-> clock]

createUserProfile(user, ok) ==
    LET q == InsertRow(profiles, NewProfileRow(user), ok)
    IN Helper(Catch(ThrowOnError(q), Null), <<"user_profiles.insert">>,
              <<q.error>>, q.table)

\* updateApiUsage answers the two tables it writes: usage (api_usage) and table
\* (user_profiles).  ok1, ok2 are the outcomes of its two queries; hasSql is
\* whether the client object has a member sql to call at line 93.
updateApiUsage(userId, tokensUsed, costCents, ok1, hasSql, ok2) ==
    LET usage == IF ok1
                 THEN Append(apiUsage, [user_id |-> userId,
                                        endpoint |-> "/api/chat/completion",
                                        tokens_used |-> tokensUsed,
                                        cost_cents |-> costCents])
                 ELSE apiUsage
        hit == hasSql /\ ok2 /\ userId \in DOMAIN profiles
        table == IF hit
                 THEN [profiles EXCEPT ![userId].api_usage_count = @ + tokensUsed]
                 ELSE profiles
        outcome == IF ~hasSql THEN Throw
                   ELSE IF ~ok2 THEN Throw
                   ELSE Return(TRUE)
        c == Catch(outcome, FALSE)
    IN [ret |-> c.ret, raised |-> c.raised,
        ops |-> IF hasSql THEN <<"api_usage.insert", "user_profiles.update">>
                ELSE <<"api_usage.insert">>,
        errors |-> IF hasSql THEN <<~ok1, ~ok2>> ELSE <<~ok1>>,
        usage |-> usage, table |-> table]

checkApiQuota(userId, ok) ==
    LET p == getUserProfile(userId, ok)
        outcome == IF p.ret = Null THEN Return(FALSE)
                   ELSE Return(p.ret.api_usage_count < p.ret.api_usage_limit)
    IN Helper(Catch(outcome, FALSE), p.ops, p.errors, profiles)

\* title = 'New Conversation' and threadId = null are the parameters' defaults
createConversation(userId, title, threadId, ok) ==
    LET row == [id |-> NextId(conversations),
                user_id |-> userId,
                title |-> IF title = Undefined THEN DefaultTitle ELSE title[1],
                thread_id |-> IF threadId = Undefined THEN NULL ELSE threadId[1],
                is_archived |-> FALSE,
                updated_at |-> Cardinality(DOMAIN conversations) + 1]
        q == InsertRow(conversations, row, ok)
    IN Helper(Catch(ThrowOnError(q), Null), <<"conversations.insert">>,
              <<q.error>>, q.table)

\* mutant: the list is not filtered by is_archived
getUserConversationsUnfiltered(userId, ok) ==
    LET ids == {c \in DOMAIN conversations : conversations[c].user_id = userId}
        q == IF ok THEN [data |-> OrderBy(conversations, ids, "updated_at", FALSE),
                         error |-> FALSE]
             ELSE [data |-> Null, error |-> TRUE]
    IN Helper(Catch(ThrowOnError(q), <<>>), <<"conversations.select">>,
              <<q.error>>, conversations)

getUserConversations(userId, ok) ==
    LET ids == {c \in DOMAIN conversations :
                    /\ conversations[c].user_id = userId
                    /\ conversations[c].is_archived = FALSE}
        q == IF ok THEN [data |-> OrderBy(conversations, ids, "updated_at", FALSE),
                         error |-> FALSE]
             ELSE [data |-> Null, error |-> TRUE]
    IN Helper(Catch(ThrowOnError(q), <<>>), <<"conversations.select">>,
              <<q.error>>, conversations)

saveMessage(conversationId, userId, role, content, metadata, ok) ==
    LET row == [id |-> NextId(messages),
                conversation_id |-> conversationId,
                user_id |-> userId,
                role |-> role,
                content |-> content,
                metadata |-> metadata,
                created_at |-> Cardinality(DOMAIN messages) + 1]
        q == InsertRow(messages, row, ok)
    IN Helper(Catch(ThrowOnError(q), Null), <<"messages.insert">>,
              <<q.error>>, q.table)

getConversationMessages(conversationId, userId, ok) ==
    LET ids == {m \in DOMAIN messages :
                    /\ messages[m].conversation_id = conversationId
                    /\ messages[m].user_id = userId}
        q == IF ok THEN [data |-> OrderBy(messages, ids, "created_at", TRUE),
                         error |-> FALSE]
             ELSE [data |-> Null, error |-> TRUE]
    IN Helper(Catch(ThrowOnError(q), <<>>), <<"messages.select">>,
              <<q.error>>, messages)

\* mutant: the update is filtered by id alone, not by owner
UpdateConversationRowAnyOwner(conversationId, userId, updates, ok) ==
    IF ok /\ conversationId \in DOMAIN conversations
    THEN LET row == ApplyUpdates(conversations[conversationId], updates)
         IN [data |-> row, error |-> FALSE,
             table |-> [conversations EXCEPT ![conversationId] = row]]
    ELSE [data |-> Null, error |-> TRUE, table |-> conversations]

\* mutant: an update that only archives deletes the row instead
UpdateConversationRowHardDelete(conversationId, userId, updates, ok) ==
    IF /\ ok
       /\ conversationId \in DOMAIN conversations
       /\ conversations[conversationId].user_id = userId
    THEN LET row == ApplyUpdates(conversations[conversationId], updates)
         IN [data |-> row, error |-> FALSE,
             table |-> IF DOMAIN updates = {"is_archived"}
                       THEN [c \in DOMAIN conversations \ {conversationId} |->
                                conversations[c]]
                       ELSE [conversations EXCEPT ![conversationId] = row]]
    ELSE [data |-> Null, error |-> TRUE, table |-> conversations]

\* update(updates).eq('id', conversationId).eq('user_id', userId).select().single()
UpdateConversationRow(conversationId, userId, updates, ok) ==
    IF /\ ok
       /\ conversationId \in DOMAIN conversations
       /\ conversations[conversationId].user_id = userId
    THEN LET row == ApplyUpdates(conversations[conversationId], updates)
         IN [data |-> row, error |-> FALSE,
             table |-> [conversations EXCEPT ![conversationId] = row]]
    ELSE [data |-> Null, error |-> TRUE, table |-> conversations]

updateConversation(conversationId, userId, updates, ok) ==
    LET q == UpdateConversationRow(conversationId, userId, updates, ok)
    IN Helper(Catch(ThrowOnError(q), Null), <<"conversations.update">>,
              <<q.error>>, q.table)
(***************************************************************************)
(* Requests and responses.                                                 *)
(***************************************************************************)
NoToken == [kind |-> "none"]
\* no header, a token the provider rejects, and each user's current token
Tokens == {NoToken, [kind |-> "jwt", sub |-> "ann", valid |-> FALSE]}
              \cup {[kind |-> "jwt", sub |-> u, valid |-> TRUE] : u \in Users}

\* the fields a request body may carry; user_id is a column name a client may send
\* although no route reads it
EmptyBody ==
    [title |-> Undefined, isArchived |-> Undefined, threadId |-> Undefined,
     role |-> Undefined, content |-> Undefined, metadata |-> Undefined,
     user_id |-> Undefined, email |-> Undefined, password |-> Undefined,
     fullName |-> Undefined, avatarUrl |-> Undefined, newPassword |-> Undefined,
     refreshToken |-> Undefined]

Request(method, path, token, body) ==
    [method |-> method, path |-> path, token |-> token, body |-> body]

\* what a handler decides: the response and the tables as it leaves them
Outcome(status, body, calls, convs, msgs) ==
    [status |-> status, body |-> body, calls |-> calls,
     conversations |-> convs, messages |-> msgs]

\* the response, with what it answers: the route that ran, the caller the
\* middleware resolved, and the request body the handler was given
Response(router, req, handler, caller, limited, status, body, calls) ==
    [router |-> router, method |-> req.method, path |-> req.path,
     reqBody |-> req.body, handler |-> handler, caller |-> caller,
     limited |-> limited, status |-> status, body |-> body, calls |-> calls]

\* a request that is answered before any handler is given its body
Unread(req) == [req EXCEPT !.body = EmptyBody]

NoResponse ==
    Response("none", Request("NONE", <<>>, NoToken, EmptyBody), "none", NoUser,
             FALSE, 0, [none |-> TRUE], <<>>)

\* a route's path matches segment by segment; a segment starting with ':' is a
\* parameter and matches any text
IsParam(seg) == seg \in {":conversationId"}
Matches(pattern, path) ==
    /\ Len(pattern) = Len(path)
    /\ \A i \in 1..Len(pattern) : IsParam(pattern[i]) \/ pattern[i] = path[i]

\* the router runs the first route, in registration order, whose method and path
\* match; 0 when none does
Dispatch(routes, req) ==
    LET hits == {i \in 1..Len(routes) :
                    routes[i].method = req.method /\ Matches(routes[i].path, req.path)}
    IN IF hits = {} THEN 0 ELSE CHOOSE i \in hits : \A j \in hits : i <= j

Route(method, path, middleware, handler) ==
    [method |-> method, path |-> path, middleware |-> middleware, handler |-> handler]

(***************************************************************************)
(* The middleware (../middleware/auth).                                    *)
(***************************************************************************)
\* bearer token -> user and profile attached to the request, or 401
authenticateUser(token, okProfile) ==
    IF token.kind = "none"
    THEN [halted |-> TRUE, status |-> 401, user |-> Null, profile |-> Null,
          calls |-> <<>>]
    ELSE LET v == verifyToken(token)
         IN IF v.ret = Null
            THEN [halted |-> TRUE, status |-> 401, user |-> Null, profile |-> Null,
                  calls |-> v.ops]
            ELSE LET p == getUserProfile(v.ret.id, okProfile)
                 IN [halted |-> FALSE, status |-> 200, user |-> v.ret,
                     profile |-> p.ret, calls |-> v.ops \o p.ops]

\* a request that names no authenticateUser passes with nothing attached
Unauthenticated ==
    [halted |-> FALSE, status |-> 200, user |-> Null, profile |-> Null, calls |-> <<>>]

\* the quota check by tier: limited is the verdict of its counters
rateLimitByTier(profile, limited) ==
    [halted |-> limited, status |-> IF limited THEN 429 ELSE 200]
(***************************************************************************)
(* The conversation router.                                                *)
(***************************************************************************)
\* the names the module binds: its require() lines
ConvRouterScope ==
    {"express", "router", "createConversation", "getUserConversations",
     "getConversationMessages", "updateConversation", "saveMessage",
     "authenticateUser", "rateLimitByTier"}

\* catch (error) { res.status(500).json(..) } of a handler
Caught(calls) ==
    Outcome(500, [error |-> "Internal error"], calls, conversations, messages)

NotFound(calls) ==
    Outcome(404, [error |-> "Conversation not found"], calls, conversations, messages)

\* router.get('/')
GetConversations(req, user, ok1, ok2) ==
    LET h == getUserConversations(user.id, ok1)
    IN IF h.raised THEN Caught(h.ops)
       ELSE Outcome(200, [conversations |-> h.ret, count |-> Len(h.ret)], h.ops,
                    conversations, messages)

\* router.post('/')
PostConversation(req, user, ok1, ok2) ==
    LET title == IF Falsy(req.body.title) THEN Some(DefaultTitle) ELSE req.body.title
        h == createConversation(user.id, title, req.body.threadId, ok1)
    IN IF h.raised THEN Caught(h.ops)
       ELSE IF h.ret = Null
       THEN Outcome(500, [error |-> "Failed to create conversation"], h.ops,
                    conversations, messages)
       ELSE Outcome(201, [conversation |-> h.ret], h.ops, h.table, messages)

\* router.get('/:conversationId'): supabase is read at line 396
GetConversation(req, user, ok1, ok2) ==
    IF "supabase" \notin ConvRouterScope THEN Caught(<<>>)
    ELSE LET q == SelectConversation(req.path[1], user.id, ok1)
             m == getConversationMessages(req.path[1], user.id, ok2)
         IN IF q.error \/ q.data = Null THEN NotFound(<<"conversations.select">>)
            ELSE IF m.raised THEN Caught(<<"conversations.select">> \o m.ops)
            ELSE Outcome(200, [conversation |-> q.data, messages |-> m.ret,
                               messageCount |-> Len(m.ret)],
                         <<"conversations.select">> \o m.ops, conversations, messages)

\* mutant: every field of the body is copied into the update
ConversationUpdatesWholeBody(body) ==
    [title |-> body.title, is_archived |-> body.isArchived, user_id |-> body.user_id]

\* const updates = {}; if (title !== undefined) ..; if (isArchived !== undefined) ..
ConversationUpdates(body) ==
    [title |-> body.title, is_archived |-> body.isArchived]

\* router.put('/:conversationId')
PutConversation(req, user, ok1, ok2) ==
    LET h == updateConversation(req.path[1], user.id, ConversationUpdates(req.body), ok1)
    IN IF h.raised THEN Caught(h.ops)
       ELSE IF h.ret = Null THEN NotFound(h.ops)
       ELSE Outcome(200, [conversation |-> h.ret], h.ops, h.table, messages)

\* { is_archived: true }
ArchiveUpdates == [is_archived |-> Some(TRUE)]

\* router.delete('/:conversationId')
DeleteConversation(req, user, ok1, ok2) ==
    LET h == updateConversation(req.path[1], user.id, ArchiveUpdates, ok1)
    IN IF h.raised THEN Caught(h.ops)
       ELSE IF h.ret = Null THEN NotFound(h.ops)
       ELSE Outcome(200, [message |-> "Conversation archived successfully"], h.ops,
                    h.table, messages)

\* router.post('/:conversationId/messages'): supabase is read at line 507.  Were it
\* bound, the ownership query and the insert would be two awaited calls.
PostMessage(req, user, ok1, ok2) ==
    IF Falsy(req.body.role) \/ Falsy(req.body.content)
    THEN Outcome(400, [error |-> "Missing required fields"], <<>>,
                 conversations, messages)
    ELSE IF "supabase" \notin ConvRouterScope THEN Caught(<<>>)
    ELSE LET q == SelectConversation(req.path[1], user.id, ok1)
             metadata == IF req.body.metadata = Undefined THEN "{}"
                         ELSE req.body.metadata[1]
             h == saveMessage(req.path[1], user.id, req.body.role[1],
                              req.body.content[1], metadata, ok2)
         IN IF q.error \/ q.data = Null THEN NotFound(<<"conversations.select">>)
            ELSE IF h.raised THEN Caught(<<"conversations.select">> \o h.ops)
            ELSE IF h.ret = Null
            THEN Outcome(500, [error |-> "Failed to save message"],
                         <<"conversations.select">> \o h.ops, conversations, messages)
            ELSE Outcome(201, [message |-> h.ret],
                         <<"conversations.select">> \o h.ops, conversations, h.table)

\* router.get('/:conversationId/messages'): supabase is read at line 550
GetMessages(req, user, ok1, ok2) ==
    IF "supabase" \notin ConvRouterScope THEN Caught(<<>>)
    ELSE LET q == SelectConversation(req.path[1], user.id, ok1)
             m == getConversationMessages(req.path[1], user.id, ok2)
         IN IF q.error \/ q.data = Null THEN NotFound(<<"conversations.select">>)
            ELSE IF m.raised THEN Caught(<<"conversations.select">> \o m.ops)
            ELSE Outcome(200, [messages |-> m.ret, count |-> Len(m.ret)],
                         <<"conversations.select">> \o m.ops, conversations, messages)

\* router.get('/health') of the conversation router
GetConvHealth(req, user, ok1, ok2) ==
    Outcome(200, [status |-> "OK", service |-> "Conversations API"], <<>>,
            conversations, messages)

\* the routes in the order the module registers them
ConvRoutes ==
    << Route("GET", <<>>, {"authenticateUser"}, "GetConversations"),
       Route("POST", <<>>, {"authenticateUser", "rateLimitByTier"}, "PostConversation"),
       Route("GET", <<":conversationId">>, {"authenticateUser"}, "GetConversation"),
       Route("PUT", <<":conversationId">>, {"authenticateUser"}, "PutConversation"),
       Route("DELETE", <<":conversationId">>, {"authenticateUser"}, "DeleteConversation"),
       Route("POST", <<":conversationId", "messages">>,
             {"authenticateUser", "rateLimitByTier"}, "PostMessage"),
       Route("GET", <<":conversationId", "messages">>, {"authenticateUser"},
             "GetMessages"),
       Route("GET", <<"health">>, {}, "GetConvHealth") >>

ConvHandler(name, req, user, ok1, ok2) ==
    CASE name = "GetConversations" -> GetConversations(req, user, ok1, ok2)
      [] name = "PostConversation" -> PostConversation(req, user, ok1, ok2)
      [] name = "GetConversation" -> GetConversation(req, user, ok1, ok2)
      [] name = "PutConversation" -> PutConversation(req, user, ok1, ok2)
      [] name = "DeleteConversation" -> DeleteConversation(req, user, ok1, ok2)
      [] name = "PostMessage" -> PostMessage(req, user, ok1, ok2)
      [] name = "GetMessages" -> GetMessages(req, user, ok1, ok2)
      [] name = "GetConvHealth" -> GetConvHealth(req, user, ok1, ok2)

\* the history of DELETEs answered 200 and not undone by a PUT answered 200
ArchivedAfter(handler, req, status) ==
    IF handler = "DeleteConversation" /\ status = 200
    THEN archived \cup {req.path[1]}
    ELSE IF /\ handler = "PutConversation" /\ status = 200
            /\ req.body.isArchived = Some(FALSE)
    THEN archived \ {req.path[1]}
    ELSE archived

\* one request through the conversation router: dispatch, middleware, handler
ConvRequest(req, okProfile, limited, ok1, ok2) ==
    /\ UNCHANGED <<authUsers, profiles, apiUsage, clientSession, pending, clock>>
    /\ \E i \in {Dispatch(ConvRoutes, req)} :
       IF i = 0
       THEN /\ resp' = Response("conversations", Unread(req), "none", NoUser, FALSE, 404,
                                [error |-> "Cannot " \o req.method], <<>>)
            /\ UNCHANGED <<conversations, messages, archived>>
       ELSE
       \E route \in {ConvRoutes[i]} :
       \E auth \in {IF "authenticateUser" \in route.middleware
                    THEN authenticateUser(req.token, okProfile)
                    ELSE Unauthenticated} :
       IF auth.halted
       THEN /\ resp' = Response("conversations", Unread(req), route.handler, NoUser,
                                FALSE, auth.status, [error |-> "Unauthorized"], auth.calls)
            /\ UNCHANGED <<conversations, messages, archived>>
       ELSE
       \E caller \in {IF auth.user = Null THEN NoUser ELSE auth.user.id} :
       \E rate \in {IF "rateLimitByTier" \in route.middleware
                    THEN rateLimitByTier(auth.profile, limited)
                    ELSE rateLimitByTier(auth.profile, FALSE)} :
       IF rate.halted
       THEN /\ resp' = Response("conversations", Unread(req), route.handler, caller, TRUE,
                                rate.status, [error |-> "Rate limit exceeded"],
                                auth.calls)
            /\ UNCHANGED <<conversations, messages, archived>>
       ELSE
       \E out \in {ConvHandler(route.handler, req, auth.user, ok1, ok2)} :
            /\ resp' = Response("conversations", req, route.handler, caller, FALSE,
                                out.status, out.body, auth.calls \o out.calls)
            /\ conversations' = out.conversations
            /\ messages' = out.messages
            /\ archived' = ArchivedAfter(route.handler, req, out.status)

\* what clients send
PathIds == {ToString(n) : n \in 1..(MaxConvs + 1)}
BodyTitles == {Undefined, Some("")} \cup {Some(t) : t \in Titles}
BodyFlags == {Undefined, Some(TRUE), Some(FALSE)}
BodyMessages == {<<Undefined, Some("hi")>>, <<Some("user"), Some("")>>,
                 <<Some("user"), Some("hi")>>}

\* A request the middleware rejects is answered before its body is read or a
\* query is made for it: one body and one outcome stand for all of them.
Rejected(token) == verifyToken(token).ret = Null
Sent(token, bodies) == IF Rejected(token) THEN {EmptyBody} ELSE bodies
Passed(token, limited, bodies) == IF limited THEN {EmptyBody} ELSE Sent(token, bodies)
Outcomes(token) == IF Rejected(token) THEN {TRUE} ELSE BOOLEAN

ListConversations ==
    \E token \in Tokens : \E ok1 \in Outcomes(token) :
        ConvRequest(Request("GET", <<>>, token, EmptyBody), TRUE, FALSE, ok1, TRUE)

CreateConversation ==
    /\ Cardinality(DOMAIN conversations) < MaxConvs
    /\ \E token \in Tokens : \E limited \in Outcomes(token), ok1 \in Outcomes(token) :
       \E body \in Passed(token, limited,
                          {[EmptyBody EXCEPT !.title = t] : t \in BodyTitles}) :
        ConvRequest(Request("POST", <<>>, token, body), TRUE, limited, ok1, TRUE)

ReadConversation ==
    \E token \in Tokens, id \in PathIds :
        ConvRequest(Request("GET", <<id>>, token, EmptyBody), TRUE, FALSE, TRUE, TRUE)

\* every PUT also carries a user_id field naming bob, which no route reads
UpdateConversation ==
    \E token \in Tokens, id \in PathIds :
    \E body \in Sent(token, {[EmptyBody EXCEPT !.title = t, !.isArchived = f,
                                                !.user_id = Some("bob")] :
                                  t \in BodyTitles \ {Some("")}, f \in BodyFlags}),
       ok1 \in Outcomes(token) :
        ConvRequest(Request("PUT", <<id>>, token, body), TRUE, FALSE, ok1, TRUE)

ArchiveConversation ==
    \E token \in Tokens, id \in PathIds : \E ok1 \in Outcomes(token) :
        ConvRequest(Request("DELETE", <<id>>, token, EmptyBody), TRUE, FALSE, ok1, TRUE)

AddMessage ==
    /\ Cardinality(DOMAIN messages) < MaxMsgs
    /\ \E token \in Tokens, id \in PathIds : \E limited \in Outcomes(token) :
       \E body \in Passed(token, limited,
                          {[EmptyBody EXCEPT !.role = m[1], !.content = m[2]] :
                              m \in BodyMessages}) :
        ConvRequest(Request("POST", <<id, "messages">>, token, body),
                    TRUE, limited, TRUE, TRUE)

ListMessages ==
    \E token \in Tokens, id \in PathIds :
        ConvRequest(Request("GET", <<id, "messages">>, token, EmptyBody),
                    TRUE, FALSE, TRUE, TRUE)

ConvHealth ==
    \E token \in Tokens :
        ConvRequest(Request("GET", <<"health">>, token, EmptyBody),
                    TRUE, FALSE, TRUE, TRUE)

(***************************************************************************)
(* The store when the process starts: it outlives the process, so it holds *)
(* what earlier runs and the store's other clients left.                   *)
(***************************************************************************)
Account(u, password) ==
    [id |-> u, email |-> EmailOf(u), password |-> password, full_name |-> u]

SeedConversation ==
    [id |-> "1", user_id |-> "ann", title |-> DefaultTitle, thread_id |-> NULL,
     is_archived |-> FALSE, updated_at |-> 1]

SeedMessage ==
    [id |-> "1", conversation_id |-> "1", user_id |-> "ann", role |-> "user",
     content |-> "hello", metadata |-> "{}", created_at |-> 1]

InitStore(registered) ==
    /\ clock = 0
    /\ authUsers = [u \in registered |-> Account(u, "pw1")]
    /\ profiles = [u \in registered |->
                      [id |-> u, email |-> EmailOf(u), full_name |-> u,
                       avatar_url |-> NULL, subscription_tier |-> "free",
                       api_usage_count |-> 0, api_usage_limit |-> 100,
                       updated_at |-> 0]]
    /\ conversations = [i \in {"1"} |-> SeedConversation]
    /\ messages = [i \in {"1"} |-> SeedMessage]
    /\ apiUsage = <<>>
    /\ clientSession = NoUser
    /\ pending = {}
    /\ archived = {}

InitWith(registered) == InitStore(registered) /\ resp = NoResponse

\* every account exists: the conversation router creates none
InitConv == InitWith(Users)

NextConv ==
    \/ ListConversations
    \/ CreateConversation
    \/ ReadConversation
    \/ UpdateConversation
    \/ ArchiveConversation
    \/ AddMessage
    \/ ListMessages
    \/ ConvHealth

SpecConv == InitConv /\ [][NextConv]_vars
(***************************************************************************)
(* The auth provider, as the calls of the authentication router show it.   *)
(* Each call answers {user, session, error} and, through the process-wide  *)
(* client it is made on, replaces the session that client holds.           *)
(***************************************************************************)
SessionOf(u) == [user_id |-> u]
NoSession == [user_id |-> NoUser]

\* supabase.auth.signUp({email, password, options: {data: {full_name}}}): the
\* provider wants an address that is not registered, and a password
AuthSignUp(emailField, passwordField, fullName, ok) ==
    IF /\ ok
       /\ ~Falsy(emailField) /\ ~Falsy(passwordField)
       /\ LocalPart(emailField[1]) \notin DOMAIN authUsers
    THEN LET email == emailField[1]
             user == [id |-> LocalPart(email), email |-> email,
                      password |-> passwordField[1], full_name |-> fullName]
         IN [user |-> user, session |-> SessionOf(user.id), error |-> FALSE,
             users |-> [u \in DOMAIN authUsers \cup {user.id} |->
                           IF u = user.id THEN user ELSE authUsers[u]],
             client |-> user.id]
    ELSE [user |-> Null, session |-> NoSession, error |-> TRUE,
          users |-> authUsers, client |-> clientSession]

\* supabase.auth.signInWithPassword({email, password})
AuthSignIn(emailField, passwordField, ok) ==
    IF /\ ok
       /\ \E u \in DOMAIN authUsers :
              /\ emailField = Some(authUsers[u].email)
              /\ passwordField = Some(authUsers[u].password)
    THEN LET u == CHOOSE u \in DOMAIN authUsers : emailField = Some(authUsers[u].email)
         IN [user |-> authUsers[u], session |-> SessionOf(u), error |-> FALSE,
             client |-> u]
    ELSE [user |-> Null, session |-> NoSession, error |-> TRUE,
          client |-> clientSession]

\* supabase.auth.signOut(): ends the session the client holds
AuthSignOut(ok) ==
    IF ok THEN [error |-> FALSE, client |-> NoUser]
    ELSE [error |-> TRUE, client |-> clientSession]

\* supabase.auth.updateUser({password}): changes the user of the session the
\* client holds
AuthUpdateUser(password, ok) ==
    IF ok /\ clientSession \in DOMAIN authUsers
    THEN [error |-> FALSE,
          users |-> [authUsers EXCEPT ![clientSession].password = password]]
    ELSE [error |-> TRUE, users |-> authUsers]

\* supabase.auth.refreshSession({refresh_token}): a refresh token is its user's
AuthRefreshSession(refreshToken, ok) ==
    IF ok /\ refreshToken \in DOMAIN authUsers
    THEN [session |-> SessionOf(refreshToken), error |-> FALSE,
          client |-> refreshToken]
    ELSE [session |-> NoSession, error |-> TRUE, client |-> clientSession]

\* supabase.auth.resetPasswordForEmail(email, {redirectTo})
AuthResetPasswordForEmail(email, ok) == [error |-> ~ok]

(***************************************************************************)
(* The authentication router.                                              *)
(***************************************************************************)
AuthRouterScope ==
    {"express", "router", "supabase", "getUserProfile", "createUserProfile",
     "authenticateUser"}

\* what a handler of the authentication router decides: the response, the
\* provider's users, the profiles and the client's session as it leaves them, and
\* cont, what is left of it to run after its next await (Null when it responded)
AuthOutcome(status, body, calls, users, profs, client, cont) ==
    [status |-> status, body |-> body, calls |-> calls, authUsers |-> users,
     profiles |-> profs, clientSession |-> client, cont |-> cont]

Replies(status, body, calls) ==
    AuthOutcome(status, body, calls, authUsers, profiles, clientSession, Null)

Continuation(handler, step, req, user, session, calls) ==
    [handler |-> handler, step |-> step, req |-> req, user |-> user,
     session |-> session, calls |-> calls]

\* { id, email, emailConfirmed } of the responses
UserSummary(user) == [id |-> user.id, email |-> user.email]

\* mutant: the fields are required with && in place of ||
MissingBothCredentials(body) == Falsy(body.email) /\ Falsy(body.password)

\* if (!email || !password)
MissingCredentials(body) == Falsy(body.email) \/ Falsy(body.password)

\* router.post('/signup'), to its first await and on to the second
PostSignup(req, auth, ok) ==
    IF MissingCredentials(req.body)
    THEN Replies(400, [error |-> "Missing required fields"], <<>>)
    ELSE IF Falsy(req.body.fullName) /\ req.body.email = Undefined
    THEN \* email.split of undefined at line 24 throws, into the handler's catch
         Replies(500, [error |-> "Internal server error"], <<>>)
    ELSE LET q == AuthSignUp(req.body.email, req.body.password,
                             IF ~Falsy(req.body.fullName) THEN req.body.fullName[1]
                             ELSE IF req.body.email = Some("") THEN ""
                             ELSE LocalPart(req.body.email[1]), ok)
         IN IF q.error
            THEN Replies(400, [error |-> "Signup failed"], <<"auth.signUp">>)
            ELSE IF q.user = Null
            THEN Replies(400, [error |-> "Signup failed"], <<"auth.signUp">>)
            ELSE AuthOutcome(0, Null, <<"auth.signUp">>, q.users, profiles, q.client,
                             Continuation("PostSignup", "getUserProfile", req, q.user,
                                          q.session, <<"auth.signUp">>))

\* res.status(201).json({.., user, profile, session}) of signup
SignupReply(k, profile, calls, profs) ==
    AuthOutcome(201, [user |-> UserSummary(k.user), profile |-> profile,
                      session |-> k.session],
                calls, authUsers, profs, clientSession, Null)

\* signup from let profile = await getUserProfile(..) to its next await or its reply
SignupGetProfile(k, ok) ==
    LET p == getUserProfile(k.user.id, ok)
    IN IF p.raised THEN Replies(500, [error |-> "Internal server error"], k.calls \o p.ops)
       ELSE IF p.ret # Null THEN SignupReply(k, p.ret, k.calls \o p.ops, profiles)
       ELSE AuthOutcome(0, Null, k.calls \o p.ops, authUsers, profiles, clientSession,
                        [k EXCEPT !.step = "createUserProfile",
                                  !.calls = k.calls \o p.ops])

\* signup from profile = await createUserProfile(data.user) to its reply
SignupCreateProfile(k, ok) ==
    LET c == createUserProfile(k.user, ok)
    IN IF c.raised THEN Replies(500, [error |-> "Internal server error"], k.calls \o c.ops)
       ELSE SignupReply(k, c.ret, k.calls \o c.ops, c.table)

\* router.post('/signin'), to its second await
PostSignin(req, auth, ok) ==
    IF MissingCredentials(req.body)
    THEN Replies(400, [error |-> "Missing required fields"], <<>>)
    ELSE LET q == AuthSignIn(req.body.email, req.body.password, ok)
         IN IF q.error
            THEN Replies(401, [error |-> "Authentication failed"],
                         <<"auth.signInWithPassword">>)
            ELSE AuthOutcome(0, Null, <<"auth.signInWithPassword">>, authUsers,
                             profiles, q.client,
                             Continuation("PostSignin", "getUserProfile", req, q.user,
                                          q.session, <<"auth.signInWithPassword">>))

\* signin from const profile = await getUserProfile(data.user.id) to its reply
SigninGetProfile(k, ok) ==
    LET p == getUserProfile(k.user.id, ok)
    IN IF p.raised THEN Replies(500, [error |-> "Internal server error"], k.calls \o p.ops)
       ELSE Replies(200, [user |-> UserSummary(k.user), profile |-> p.ret,
                          session |-> k.session], k.calls \o p.ops)

\* router.post('/signout')
PostSignout(req, auth, ok) ==
    LET q == AuthSignOut(ok)
    IN IF q.error THEN Replies(400, [error |-> "Signout failed"], <<"auth.signOut">>)
       ELSE AuthOutcome(200, [message |-> "Signed out successfully"],
                        <<"auth.signOut">>, authUsers, profiles, q.client, Null)

\* router.get('/profile')
GetProfile(req, auth, ok) ==
    Replies(200, [user |-> UserSummary(auth.user), profile |-> auth.profile], <<>>)

\* mutant: full_name is written whether or not the body names it
ProfileUpdatesOverwrite(body, now) ==
    [full_name |-> IF body.fullName = Undefined THEN Some(NULL) ELSE body.fullName,
     avatar_url |-> body.avatarUrl, updated_at |-> Some(now)]

\* const updates = {}; if (fullName !== undefined) ..; if (avatarUrl !== undefined) ..;
\* updates.updated_at = new Date().toISOString()
ProfileUpdates(body, now) ==
    [full_name |-> body.fullName, avatar_url |-> body.avatarUrl,
     updated_at |-> Some(now)]

\* router.put('/profile'); the clock has moved on since the row was last written
PutProfile(req, auth, ok) ==
    LET q == UpdateProfile(auth.user.id, ProfileUpdates(req.body, clock + 1), ok)
    IN IF q.error
       THEN Replies(400, [error |-> "Profile update failed"], <<"user_profiles.update">>)
       ELSE AuthOutcome(200, [profile |-> q.data], <<"user_profiles.update">>,
                        authUsers, q.table, clientSession, Null)

\* router.post('/reset-password')
PostResetPassword(req, auth, ok) ==
    IF Falsy(req.body.email)
    THEN Replies(400, [error |-> "Missing email"], <<>>)
    ELSE IF AuthResetPasswordForEmail(req.body.email[1], ok).error
    THEN Replies(400, [error |-> "Password reset failed"],
                 <<"auth.resetPasswordForEmail">>)
    ELSE Replies(200, [message |-> "Password reset email sent successfully"],
                 <<"auth.resetPasswordForEmail">>)

\* router.put('/password')
PutPassword(req, auth, ok) ==
    IF Falsy(req.body.newPassword)
    THEN Replies(400, [error |-> "Missing password"], <<>>)
    ELSE LET q == AuthUpdateUser(req.body.newPassword[1], ok)
         IN IF q.error
            THEN Replies(400, [error |-> "Password update failed"],
                         <<"auth.updateUser">>)
            ELSE AuthOutcome(200, [message |-> "Password updated successfully"],
                             <<"auth.updateUser">>, q.users, profiles, clientSession,
                             Null)

\* router.post('/refresh')
PostRefresh(req, auth, ok) ==
    IF Falsy(req.body.refreshToken)
    THEN Replies(400, [error |-> "Missing refresh token"], <<>>)
    ELSE LET q == AuthRefreshSession(req.body.refreshToken[1], ok)
         IN IF q.error
            THEN Replies(401, [error |-> "Token refresh failed"],
                         <<"auth.refreshSession">>)
            ELSE AuthOutcome(200, [session |-> q.session], <<"auth.refreshSession">>,
                             authUsers, profiles, q.client, Null)

\* router.get('/health') of the authentication router
GetAuthHealth(req, auth, ok) ==
    Replies(200, [status |-> "OK", service |-> "Authentication API"], <<>>)

\* the routes in the order the module registers them
AuthRoutes ==
    << Route("POST", <<"signup">>, {}, "PostSignup"),
       Route("POST", <<"signin">>, {}, "PostSignin"),
       Route("POST", <<"signout">>, {"authenticateUser"}, "PostSignout"),
       Route("GET", <<"profile">>, {"authenticateUser"}, "GetProfile"),
       Route("PUT", <<"profile">>, {"authenticateUser"}, "PutProfile"),
       Route("POST", <<"reset-password">>, {}, "PostResetPassword"),
       Route("PUT", <<"password">>, {"authenticateUser"}, "PutPassword"),
       Route("POST", <<"refresh">>, {}, "PostRefresh"),
       Route("GET", <<"health">>, {}, "GetAuthHealth") >>

AuthHandler(name, req, auth, ok) ==
    CASE name = "PostSignup" -> PostSignup(req, auth, ok)
      [] name = "PostSignin" -> PostSignin(req, auth, ok)
      [] name = "PostSignout" -> PostSignout(req, auth, ok)
      [] name = "GetProfile" -> GetProfile(req, auth, ok)
      [] name = "PutProfile" -> PutProfile(req, auth, ok)
      [] name = "PostResetPassword" -> PostResetPassword(req, auth, ok)
      [] name = "PutPassword" -> PutPassword(req, auth, ok)
      [] name = "PostRefresh" -> PostRefresh(req, auth, ok)
      [] name = "GetAuthHealth" -> GetAuthHealth(req, auth, ok)

\* the state after a handler of the authentication router ran to its reply or to
\* its next await
AuthStep(req, handler, caller, out, suspended) ==
    /\ authUsers' = out.authUsers
    /\ profiles' = out.profiles
    /\ clientSession' = out.clientSession
    /\ IF out.cont = Null
       THEN /\ resp' = Response("auth", req, handler, caller, FALSE, out.status,
                                out.body, out.calls)
            /\ pending' = suspended
       ELSE /\ resp' = NoResponse
            /\ pending' = suspended \cup {out.cont}

\* one request through the authentication router: dispatch, middleware, handler
AuthRequest(req, okProfile, ok) ==
    /\ UNCHANGED <<conversations, messages, apiUsage, archived>>
    /\ \E i \in {Dispatch(AuthRoutes, req)} :
       IF i = 0
       THEN /\ resp' = Response("auth", Unread(req), "none", NoUser, FALSE, 404,
                                [error |-> "Cannot " \o req.method], <<>>)
            /\ UNCHANGED <<authUsers, profiles, clientSession, pending, clock>>
       ELSE
       \E route \in {AuthRoutes[i]} :
       \E auth \in {IF "authenticateUser" \in route.middleware
                    THEN authenticateUser(req.token, okProfile)
                    ELSE Unauthenticated} :
       IF auth.halted
       THEN /\ resp' = Response("auth", Unread(req), route.handler, NoUser, FALSE,
                                auth.status, [error |-> "Unauthorized"], auth.calls)
            /\ UNCHANGED <<authUsers, profiles, clientSession, pending, clock>>
       ELSE
       \E caller \in {IF auth.user = Null THEN NoUser ELSE auth.user.id} :
       \E out \in {AuthHandler(route.handler, req, auth, ok)} :
            /\ AuthStep(req, route.handler, caller,
                        [out EXCEPT !.calls = auth.calls \o out.calls], pending)
            /\ clock' = IF route.handler = "PutProfile" THEN clock + 1 ELSE clock

\* a handler suspended at an await runs on to its reply or to its next await
Resume(k, ok) ==
    /\ UNCHANGED <<conversations, messages, apiUsage, archived, clock>>
    /\ \E out \in {CASE k.handler = "PostSignup" /\ k.step = "getUserProfile" ->
                         SignupGetProfile(k, ok)
                  [] k.handler = "PostSignup" /\ k.step = "createUserProfile" ->
                         SignupCreateProfile(k, ok)
                  [] k.handler = "PostSignin" -> SigninGetProfile(k, ok)} :
          AuthStep(k.req, k.handler, NoUser, out, pending \ {k})

\* what clients send
BodySignups ==
    {<<Undefined, Some("pw1"), Undefined>>,
     <<Some(""), Some("pw1"), Undefined>>,
     <<Some(EmailOf("bob")), Undefined, Undefined>>,
     <<Some(EmailOf("bob")), Some(""), Undefined>>,
     <<Some(EmailOf("bob")), Some("pw1"), Undefined>>,
     <<Some(EmailOf("ann")), Some("pw1"), Undefined>>}
BodySignins ==
    {<<Undefined, Some("pw1")>>, <<Some(EmailOf("ann")), Undefined>>,
     <<Some(EmailOf("ann")), Some("pw1")>>, <<Some(EmailOf("ann")), Some("pw2")>>,
     <<Some(EmailOf("bob")), Some("pw1")>>}
BodyNames == {Undefined, Some("nn")}
BodyAvatars == {Undefined, Some("a.png")}

Signup ==
    /\ Cardinality(pending) < MaxPending
    /\ \E fields \in BodySignups, ok \in BOOLEAN :
        AuthRequest(Request("POST", <<"signup">>, NoToken,
                            [EmptyBody EXCEPT !.email = fields[1],
                                              !.password = fields[2],
                                              !.fullName = fields[3]]), TRUE, ok)

SignupResumes ==
    \E k \in pending, ok \in BOOLEAN : k.handler = "PostSignup" /\ Resume(k, ok)

Signin ==
    /\ Cardinality(pending) < MaxPending
    /\ \E fields \in BodySignins, ok \in BOOLEAN :
        AuthRequest(Request("POST", <<"signin">>, NoToken,
                            [EmptyBody EXCEPT !.email = fields[1],
                                              !.password = fields[2]]), TRUE, ok)

SigninResumes ==
    \E k \in pending, ok \in BOOLEAN : k.handler = "PostSignin" /\ Resume(k, ok)

Signout ==
    \E token \in Tokens : \E ok \in Outcomes(token) :
        AuthRequest(Request("POST", <<"signout">>, token, EmptyBody), TRUE, ok)

ReadProfile ==
    \E token \in Tokens : \E okProfile \in Outcomes(token) :
        AuthRequest(Request("GET", <<"profile">>, token, EmptyBody), okProfile, TRUE)

WriteProfile ==
    /\ clock < MaxClock
    /\ \E token \in Tokens :
       \E body \in Sent(token, {[EmptyBody EXCEPT !.fullName = n, !.avatarUrl = a] :
                                     n \in BodyNames, a \in BodyAvatars}),
          ok \in Outcomes(token) :
        AuthRequest(Request("PUT", <<"profile">>, token, body), TRUE, ok)

ResetPassword ==
    \E email \in {Undefined, Some(EmailOf("ann"))}, ok \in BOOLEAN :
        AuthRequest(Request("POST", <<"reset-password">>, NoToken,
                            [EmptyBody EXCEPT !.email = email]), TRUE, ok)

ChangePassword ==
    \E token \in Tokens :
    \E body \in Sent(token, {[EmptyBody EXCEPT !.newPassword = p] :
                                  p \in {Undefined, Some("pw2")}}),
       ok \in Outcomes(token) :
        AuthRequest(Request("PUT", <<"password">>, token, body), TRUE, ok)

RefreshSession ==
    \E refreshToken \in {Undefined} \cup {Some(u) : u \in Users}, ok \in BOOLEAN :
        AuthRequest(Request("POST", <<"refresh">>, NoToken,
                            [EmptyBody EXCEPT !.refreshToken = refreshToken]), TRUE, ok)

AuthHealth ==
    \E token \in Tokens :
        AuthRequest(Request("GET", <<"health">>, token, EmptyBody), TRUE, TRUE)

\* the database-side trigger line 38 allows for: it inserts the profile of a user
\* the provider has created, at a time of its own
ProfileTrigger ==
    \E u \in DOMAIN authUsers \ DOMAIN profiles :
        /\ profiles' = InsertRow(profiles, NewProfileRow(authUsers[u]), TRUE).table
        /\ resp' = NoResponse
        /\ UNCHANGED <<authUsers, conversations, messages, apiUsage, clientSession,
                       pending, clock, archived>>

\* one account exists: the others sign up
InitAuth == InitWith({"ann"})

NextAuth ==
    \/ Signup
    \/ SignupResumes
    \/ Signin
    \/ SigninResumes
    \/ Signout
    \/ ReadProfile
    \/ WriteProfile
    \/ ResetPassword
    \/ ChangePassword
    \/ RefreshSession
    \/ AuthHealth
    \/ ProfileTrigger

SpecAuth == InitAuth /\ [][NextAuth]_vars

(***************************************************************************)
(* Properties of the conversation router (checked under SpecConv).         *)
(***************************************************************************)
Owns(u, c) == c \in DOMAIN conversations /\ conversations[c].user_id = u

\* the response the step sends answers an authenticated request to handler
Answers(r, handler) == r.handler = handler /\ r.caller \in Users

\* C1: a PUT /:id on a conversation that exists and belongs to another user than
\* the authenticated caller is answered 404, whatever its body, and leaves the
\* conversation's title and archived flag as they were.
C1_PutByNonOwnerIs404 ==
    [][\A c \in DOMAIN conversations :
          (/\ Answers(resp', "PutConversation")
           /\ resp'.path = <<c>>
           /\ conversations[c].user_id # resp'.caller)
          => /\ resp'.status = 404
             /\ conversations'[c].title = conversations[c].title
             /\ conversations'[c].is_archived = conversations[c].is_archived]_vars

\* C1 witness: a non-owner's PUT carrying a title and an archived flag was answered
C1_Witness ==
    /\ Answers(resp, "PutConversation")
    /\ resp.path[1] \in DOMAIN conversations
    /\ ~Owns(resp.caller, resp.path[1])
    /\ resp.reqBody.title # Undefined
    /\ resp.reqBody.isArchived # Undefined
    /\ resp.status = 404

\* C2 (as claimed): a POST /:id/messages carrying role and content, by an
\* authenticated caller within quota who does not own the conversation (another
\* user's, or none), is answered 404 and leaves the message rows as they were.
C2_PostToForeignConversationIs404 ==
    [][(/\ Answers(resp', "PostMessage")
        /\ ~resp'.limited
        /\ ~Falsy(resp'.reqBody.role)
        /\ ~Falsy(resp'.reqBody.content)
        /\ ~Owns(resp'.caller, resp'.path[1]))
       => /\ resp'.status = 404
          /\ messages' = messages]_vars

\* C3: once a DELETE /:id was answered 200, the owner's list of conversations does
\* not hold that conversation, and its count is its length, until a PUT un-archives
\* the conversation.
C3_ArchivedNotListed ==
    (Answers(resp, "GetConversations") /\ resp.status = 200)
    => /\ \A i \in 1..Len(resp.body.conversations) :
              resp.body.conversations[i].id \notin archived
       /\ resp.body.count = Len(resp.body.conversations)

\* C3 witness: the owner of a conversation archived by DELETE lists and is shown
\* another of their conversations
C3_Witness ==
    /\ Answers(resp, "GetConversations")
    /\ resp.status = 200
    /\ \E c \in archived : Owns(resp.caller, c)
    /\ resp.body.count >= 1

\* C4 (as claimed): GET /health is answered 200 with status "OK" by the router's
\* health handler, whatever token the request carries, and without the
\* authentication middleware having made a call.
C4_HealthAlwaysOK ==
    (resp.method = "GET" /\ resp.path = <<"health">>)
    => /\ resp.status = 200
       /\ resp.handler \in {"GetConvHealth", "GetAuthHealth"}
       /\ resp.body.status = "OK"
       /\ resp.calls = <<>>

\* C9: every message row refers to a conversation that exists and whose owner is
\* the message's user.
C9_MessageOwnerIsConversationOwner ==
    \A m \in DOMAIN messages :
        /\ messages[m].conversation_id \in DOMAIN conversations
        /\ conversations[messages[m].conversation_id].user_id = messages[m].user_id

\* C9 witness: the owner's POST /:id/messages, carrying role and content, was
\* answered for a conversation that holds a message and was archived meanwhile,
\* with another user's conversation in the store
C9_Witness ==
    /\ Answers(resp, "PostMessage")
    /\ Owns(resp.caller, resp.path[1])
    /\ ~Falsy(resp.reqBody.role) /\ ~Falsy(resp.reqBody.content)
    /\ conversations[resp.path[1]].is_archived
    /\ \E m \in DOMAIN messages : messages[m].conversation_id = resp.path[1]
    /\ \E c \in DOMAIN conversations : ~Owns(resp.caller, c)

\* C10: no step removes a conversation row or a message row or changes a
\* conversation's owner, and a DELETE /:id changes nothing but the archived flag,
\* to true, of the conversation it names, which is the caller's.
C10_RowsOnlyGrow ==
    [][/\ DOMAIN conversations \subseteq DOMAIN conversations'
       /\ DOMAIN messages \subseteq DOMAIN messages'
       /\ \A c \in DOMAIN conversations :
              conversations'[c].user_id = conversations[c].user_id
       /\ resp'.handler = "DeleteConversation"
          => /\ messages' = messages
             /\ \A c \in DOMAIN conversations :
                    conversations'[c] # conversations[c]
                    => /\ resp'.path = <<c>>
                       /\ conversations[c].user_id = resp'.caller
                       /\ conversations'[c] =
                              [conversations[c] EXCEPT !.is_archived = TRUE]]_vars

\* C10 witness: a DELETE was answered 200 and its conversation is still a row,
\* archived, next to another conversation
C10_Witness ==
    /\ Answers(resp, "DeleteConversation")
    /\ resp.status = 200
    /\ resp.path[1] \in DOMAIN conversations
    /\ conversations[resp.path[1]].is_archived
    /\ Cardinality(DOMAIN conversations) > 1
    /\ messages # << >>
(***************************************************************************)
(* Properties of the authentication router (checked under SpecAuth).       *)
(***************************************************************************)
\* a body field that is missing, or empty
Lacks(field) == field = Undefined \/ field = Some("")

\* C5: a POST /signup whose body lacks email or password is answered 400 without
\* a call to the provider or the store, and creates no user and no profile.
C5_SignupWithoutCredentialsIs400 ==
    [][(/\ resp'.handler = "PostSignup"
        /\ Lacks(resp'.reqBody.email) \/ Lacks(resp'.reqBody.password))
       => /\ resp'.status = 400
          /\ resp'.calls = << >>
          /\ authUsers' = authUsers
          /\ profiles' = profiles
          /\ pending' = pending]_vars

\* C5 witness: a signup for an address that is free, with an empty password, was
\* answered 400 (with a password it would have created the user)
C5_Witness ==
    /\ resp.handler = "PostSignup"
    /\ resp.reqBody.email = Some(EmailOf("bob"))
    /\ resp.reqBody.password = Some("")
    /\ resp.status = 400
    /\ "bob" \notin DOMAIN authUsers

\* C6: a PUT /profile leaves every profile row but the caller's as it was, and in
\* the caller's row leaves email, tier, usage count and usage limit as they were,
\* and full_name (avatar_url) too when the body names no fullName (avatarUrl).
C6_ProfileUpdateIsPartial ==
    [][resp'.handler = "PutProfile"
       => /\ DOMAIN profiles' = DOMAIN profiles
          /\ \A u \in DOMAIN profiles :
                /\ u # resp'.caller => profiles'[u] = profiles[u]
                /\ profiles'[u].id = profiles[u].id
                /\ profiles'[u].email = profiles[u].email
                /\ profiles'[u].subscription_tier = profiles[u].subscription_tier
                /\ profiles'[u].api_usage_count = profiles[u].api_usage_count
                /\ profiles'[u].api_usage_limit = profiles[u].api_usage_limit
                /\ resp'.reqBody.fullName = Undefined
                   => profiles'[u].full_name = profiles[u].full_name
                /\ resp'.reqBody.avatarUrl = Undefined
                   => profiles'[u].avatar_url = profiles[u].avatar_url]_vars

\* C6 witness: a PUT /profile naming only avatarUrl was answered 200 with the new
\* avatar and the new timestamp, next to another user's profile
C6_Witness ==
    /\ resp.handler = "PutProfile"
    /\ resp.status = 200
    /\ resp.reqBody.fullName = Undefined
    /\ resp.reqBody.avatarUrl = Some("a.png")
    /\ profiles[resp.caller].avatar_url = "a.png"
    /\ profiles[resp.caller].full_name = resp.caller
    /\ profiles[resp.caller].updated_at = clock
    /\ DOMAIN profiles = Users

\* C7 (as claimed): a 200 of POST /signin carries a profile that is not null and
\* whose id is the user id of the session beside it.
C7_SigninProfileMatchesSession ==
    (resp.handler = "PostSignin" /\ resp.status = 200)
    => /\ resp.body.profile # Null
       /\ resp.body.session.user_id = resp.body.profile.id
       /\ resp.body.user.id = resp.body.profile.id

\* C11 (as claimed): a PUT /password answered 200 sets the password of the caller,
\* the user its bearer token names, and of no other user; and a POST /signout
\* answered 200 ends no session but the caller's, whatever sign-in, sign-up or
\* refresh the process handled for other users before.
C11_PasswordAndSignoutActOnCaller ==
    [][/\ (resp'.handler = "PutPassword" /\ resp'.status = 200)
          => /\ authUsers'[resp'.caller].password = resp'.reqBody.newPassword[1]
             /\ \A u \in DOMAIN authUsers \ {resp'.caller} :
                    authUsers'[u] = authUsers[u]
       /\ (resp'.handler = "PostSignout" /\ resp'.status = 200)
          => clientSession \in {NoUser, resp'.caller}]_vars

\* C12 (as claimed): a POST /signup on which the provider created the user is
\* answered 201, the user then has a profile row, and the profile in the response
\* is that row, whenever the trigger inserted it or did not.
C12_SignupAnswersWithTheProfile ==
    (resp.handler = "PostSignup" /\ Len(resp.calls) >= 2)
    => /\ resp.status = 201
       /\ resp.body.user.id \in DOMAIN profiles
       /\ resp.body.profile = profiles[resp.body.user.id]
(***************************************************************************)
(* The adapter on its own: a caller invokes the helpers directly.  resp    *)
(* holds the last call and what the caller got from it.                    *)
(***************************************************************************)
Called(helper, h) ==
    [router |-> "adapter", helper |-> helper, ret |-> h.ret, raised |-> h.raised,
     ops |-> h.ops, errors |-> h.errors]

NoCall ==
    [router |-> "adapter", helper |-> "none", ret |-> Null, raised |-> FALSE,
     ops |-> << >>, errors |-> << >>]

\* tokensUsed = 1 is the parameter's default
TokensUsed == {1}

\* a call that leaves the store as it is
Reads(helper, h) ==
    /\ resp' = Called(helper, h)
    /\ UNCHANGED <<authUsers, profiles, conversations, messages, apiUsage,
                   clientSession, pending, clock, archived>>

CallVerifyToken ==
    \E token \in Tokens : Reads("verifyToken", verifyToken(token))

CallGetUserProfile ==
    \E u \in Users, ok \in BOOLEAN : Reads("getUserProfile", getUserProfile(u, ok))

CallCreateUserProfile ==
    \E u \in Users, ok \in BOOLEAN :
        LET h == createUserProfile(Account(u, "pw1"), ok)
        IN /\ resp' = Called("createUserProfile", h)
           /\ profiles' = h.table
           /\ UNCHANGED <<authUsers, conversations, messages, apiUsage,
                          clientSession, pending, clock, archived>>

CallUpdateApiUsage ==
    /\ Len(apiUsage) < MaxUsage
    /\ \E u \in Users, tokensUsed \in TokensUsed, ok1, hasSql, ok2 \in BOOLEAN :
          /\ u \in DOMAIN profiles => profiles[u].api_usage_count < MaxCount
          /\ LET h == updateApiUsage(u, tokensUsed, 0, ok1, hasSql, ok2)
             IN /\ resp' = Called("updateApiUsage", h)
                /\ apiUsage' = h.usage
                /\ profiles' = h.table
                /\ UNCHANGED <<authUsers, conversations, messages, clientSession,
                               pending, clock, archived>>

CallCheckApiQuota ==
    \E u \in Users, ok \in BOOLEAN : Reads("checkApiQuota", checkApiQuota(u, ok))

CallCreateConversation ==
    /\ Cardinality(DOMAIN conversations) < MaxConvs
    /\ \E u \in Users, ok \in BOOLEAN :
          LET h == createConversation(u, Undefined, Undefined, ok)
          IN /\ resp' = Called("createConversation", h)
             /\ conversations' = h.table
             /\ UNCHANGED <<authUsers, profiles, messages, apiUsage, clientSession,
                            pending, clock, archived>>

CallGetUserConversations ==
    \E u \in Users, ok \in BOOLEAN :
        Reads("getUserConversations", getUserConversations(u, ok))

CallUpdateConversation ==
    \E c \in DOMAIN conversations, u \in Users, ok \in BOOLEAN :
        LET h == updateConversation(c, u, ArchiveUpdates, ok)
        IN /\ resp' = Called("updateConversation", h)
           /\ conversations' = h.table
           /\ UNCHANGED <<authUsers, profiles, messages, apiUsage, clientSession,
                          pending, clock, archived>>

CallSaveMessage ==
    /\ Cardinality(DOMAIN messages) < MaxMsgs
    /\ \E c \in DOMAIN conversations, u \in Users, ok \in BOOLEAN :
          LET h == saveMessage(c, u, "user", "hi", "{}", ok)
          IN /\ resp' = Called("saveMessage", h)
             /\ messages' = h.table
             /\ UNCHANGED <<authUsers, profiles, conversations, apiUsage,
                            clientSession, pending, clock, archived>>

CallGetConversationMessages ==
    \E c \in DOMAIN conversations, u \in Users, ok \in BOOLEAN :
        Reads("getConversationMessages", getConversationMessages(c, u, ok))

InitAdapter == InitStore({"ann"}) /\ resp = NoCall

NextAdapter ==
    \/ CallVerifyToken
    \/ CallGetUserProfile
    \/ CallCreateUserProfile
    \/ CallUpdateApiUsage
    \/ CallCheckApiQuota
    \/ CallCreateConversation
    \/ CallGetUserConversations
    \/ CallUpdateConversation
    \/ CallSaveMessage
    \/ CallGetConversationMessages

SpecAdapter == InitAdapter /\ [][NextAdapter]_vars

(***************************************************************************)
(* Properties of the adapter (checked under SpecAdapter).                  *)
(***************************************************************************)
\* what each helper answers when its operation fails
Sentinel(helper) ==
    CASE helper \in {"getUserConversations", "getConversationMessages"} -> << >>
      [] helper \in {"updateApiUsage", "checkApiQuota"} -> FALSE
      [] OTHER -> Null

\* whether ret is what the helper was asked for (a list may be empty, and a
\* quota may be used up)
Requested(helper, ret) ==
    CASE helper \in {"getUserConversations", "getConversationMessages",
                     "checkApiQuota"} -> TRUE
      [] helper = "updateApiUsage" -> ret = TRUE
      [] OTHER -> ret # Null

\* C8 (as claimed): every call of a helper issues exactly one backend operation
\* and returns without raising: what was asked for when the operation succeeds,
\* its sentinel when the operation fails.
C8_EveryHelperIssuesOneOperation ==
    resp.helper # "none"
    => /\ ~resp.raised
       /\ Len(resp.ops) = 1
       /\ IF resp.errors[1] THEN resp.ret = Sentinel(resp.helper)
          ELSE Requested(resp.helper, resp.ret)

====
